---------------------------- MODULE Spec2Model ----------------------------
(***************************************************************************)
(* A model of lib/unity_cache_server.js: the UnityCacheServer class.       *)
(*                                                                         *)
(* One Node.js process is modelled.  JavaScript runs each synchronous      *)
(* stretch of code to completion, so an action is one such stretch: from   *)
(* the event that resumes it (a call, a promise settling, a timer, a       *)
(* signal) to its next await or return.                                    *)
(*                                                                         *)
(* Specifications:                                                         *)
(*   SpecGate     initCache() called repeatedly, calls may overlap         *)
(*   Spec         start(): gate, topology, mirrors, server, signals        *)
(*   SpecCleanup  cleanup(dryRun, daemon): single pass and daemon loop     *)
(***************************************************************************)
EXTENDS Integers, Sequences, FiniteSets

(* ------------------------------ bounds -------------------------------- *)

\* initCache() calls made in SpecGate
MaxCalls == 4

\* largest configured worker count (Cache.options.workers ranges over -1..MaxWorkers)
MaxWorkers == 2

\* longest configured mirror list
MaxMirrors == 2

\* termination signals delivered to the process
MaxSignals == 3

\* cleanup passes started by one cleanup() call in daemon mode
MaxPasses == 3

\* options objects a caller may pass to initCache()
Opts == {"optsA", "optsB"}

(* ------------------------------- state -------------------------------- *)

VARIABLES
    proc,            \* the process: "running", "exit0", "exit1", "killed"
    moduleOk,        \* config: the configured cache module name resolves
    cache_instance,  \* this.constructor._cache_instance: 0 is null, else an index of backends
    backends,        \* every backend ever constructed: [state, opts, inits]
    calls,           \* every initCache() call: [opts, pc, inst, seen]
    pc,              \* start(): "idle", "await_cache", "await_mirrors", "await_server",
                     \*          "returned", "rejected"
    cfg,             \* the configuration start() reads: [workers, clustering, isMaster,
                     \*          port, mirror]
    workers,         \* start()'s local `workers`
    logger,          \* the logger chosen by helpers.setLogger (line 168)
    mirrors,         \* getMirrors()'s local `mirrors`: one promise state per candidate
    all,             \* the Promise.all of line 48: [st, val, err]
    server,          \* start()'s local `server`: [constructed, mirror, startCalls,
                     \*          stopCalls, state]
    forked,          \* cluster.fork() calls made
    listeners,       \* signals that have a listener installed by start()
    hpc,             \* per signal, the position of its shutdown handler
    shutdownCalls,   \* cache.shutdown() calls made
    events,          \* the shutdown steps taken, in order: <<step, signal>>
    signals,         \* termination signals delivered so far
    cpc,             \* cleanup(): "idle", "await_cache", "in_pass", "sleeping",
                     \*            "returned", "rejected", "aborted"
    cargs,           \* cleanup()'s arguments: [dryRun, daemon]
    capCleanup,      \* cache.constructor.properties.cleanup
    handlers,        \* cache.on(...) listeners attached by cleanup()
    finished,        \* doCleanupInterval()'s local `finished`
    cancelAt,        \* where cleanup() stood when line 269 first set `finished`
    cancelOn,        \* signals that have the listener of line 269
    loop_i,          \* doCleanupInterval()'s loop variable `i`
    interval,        \* doCleanupInterval()'s local `interval`
    timer,           \* the delay of the pending setTimeout, 0 when none is pending
    slices,          \* setTimeout calls made since the last pass ended
    passArgs,        \* the dryRun argument of every cache.cleanup() call, in order
    completed,       \* cache.cleanup() calls that resolved
    spins,           \* spinner.start() calls
    notices,         \* "Nothing deleted" notices logged
    summary          \* the last cleanup summary logged: [cacheSize, deleteSize, pct]

gateVars == <<moduleOk, cache_instance, backends, calls>>

startVars == <<pc, cfg, workers, logger, mirrors, all, server, forked>>

sigVars == <<listeners, hpc, shutdownCalls, events>>

cleanVars == <<cpc, cargs, capCleanup, handlers, finished, cancelAt, cancelOn, loop_i, interval,
               timer, slices, passArgs, completed, spins, notices, summary>>

vars == <<proc, signals, gateVars, startVars, sigVars, cleanVars>>

(* ------------------------- initCache(), lines 123-143 ----------------- *)

\* line 139 as a plausible slip: the new instance is not memoised
InstanceNotMemoised(cur, new) == cur

\* line 139: this.constructor._cache_instance = new CacheModule()
InstanceAfterConstruct(cur, new) == new

\* A call record.  seen is the lifecycle state of the backend at the moment
\* the call returned it ("none" while the call has returned nothing).
CallRec(o, p, i, s) == [opts |-> o, pc |-> p, inst |-> i, seen |-> s]

\* The synchronous part of initCache(opts): lines 124-141, up to the await.
InitCacheEnter(o) ==
    IF cache_instance # 0
    THEN \* lines 124-126: the memoised instance is returned as it is
         /\ calls' = Append(calls, CallRec(o, "returned", cache_instance,
                                           backends[cache_instance].state))
         /\ UNCHANGED <<cache_instance, backends>>
    ELSE IF ~moduleOk
    THEN \* line 132: helpers.resolveCacheModule throws, nothing is constructed
         /\ calls' = Append(calls, CallRec(o, "rejected", 0, "none"))
         /\ UNCHANGED <<cache_instance, backends>>
    ELSE \* lines 139-141: construct, memoise, call init(myOpts), await
         /\ backends' = Append(backends,
                [state |-> "initializing", opts |-> o, inits |-> 1])
         /\ cache_instance' = InstanceAfterConstruct(cache_instance, Len(backends) + 1)
         /\ calls' = Append(calls, CallRec(o, "awaiting", Len(backends) + 1, "none"))

\* initCache(opts) called by some caller of the class
InitCacheCall ==
    /\ proc = "running"
    /\ Len(calls) < MaxCalls
    /\ \E o \in Opts : InitCacheEnter(o)
    /\ UNCHANGED <<cleanVars, moduleOk, proc, signals, startVars, sigVars>>

\* line 141-142: init() of backend b resolves; the call awaiting it returns b
InitSettleOk(b) ==
    /\ backends' = [backends EXCEPT ![b].state = "ready"]
    /\ calls' = [k \in DOMAIN calls |->
                    IF calls[k].pc = "awaiting" /\ calls[k].inst = b
                    THEN [calls[k] EXCEPT !.pc = "returned", !.seen = "ready"]
                    ELSE calls[k]]
    /\ UNCHANGED <<cleanVars, moduleOk, cache_instance, proc, signals, startVars, sigVars>>

\* line 141: init() of backend b rejects; the await throws out of initCache()
InitSettleErr(b) ==
    /\ backends' = [backends EXCEPT ![b].state = "failed"]
    /\ calls' = [k \in DOMAIN calls |->
                    IF calls[k].pc = "awaiting" /\ calls[k].inst = b
                    THEN [calls[k] EXCEPT !.pc = "rejected"]
                    ELSE calls[k]]
    /\ UNCHANGED <<cleanVars, moduleOk, cache_instance, proc, signals, startVars, sigVars>>

InitResolve ==
    \E b \in DOMAIN backends :
        /\ proc = "running"
        /\ backends[b].state = "initializing"
        /\ InitSettleOk(b)

InitReject ==
    \E b \in DOMAIN backends :
        /\ proc = "running"
        /\ backends[b].state = "initializing"
        /\ InitSettleErr(b)

(* --------------------------- configuration ---------------------------- *)

\* consts.DEFAULT_PORT, the port a mirror string without ":port" gets (line 40)
DEFAULT_PORT == 8126

\* another port
OtherPort == DEFAULT_PORT + 1

\* ip.address() of this node (line 37), the loopback address of line 41, a peer
MyIp == "10.0.0.5"

Loopback == "127.0.0.1"

PeerIp == "10.0.0.9"

\* The mirror strings of the configuration, "host[:port]": port 0 stands for a
\* string without ":port", host "?" for a string that does not parse or resolve.
BadString == [host |-> "?", port |-> 0]

MirrorStrings ==
    [host : {MyIp, Loopback, PeerIp}, port : {0, OtherPort}] \cup {BadString}

RECURSIVE SeqsUpTo(_, _)
SeqsUpTo(S, n) ==
    IF n = 0 THEN {<<>>}
    ELSE LET shorter == SeqsUpTo(S, n - 1)
         IN  shorter \cup {Append(q, x) : q \in {r \in shorter : Len(r) = n - 1}, x \in S}

\* getConfigVal(WORKERS, 0), cache.constructor.properties.clustering,
\* cluster.isMaster, getConfigVal(PORT, DEFAULT_PORT), config.get(MIRROR).
\* A worker process exists only by the fork of line 199, so its configuration
\* is one under which a master forks.
Configs ==
    {c \in [workers : -1 .. MaxWorkers, clustering : BOOLEAN, isMaster : BOOLEAN,
            port : {DEFAULT_PORT, OtherPort}, mirror : SeqsUpTo(MirrorStrings, MaxMirrors)] :
        ~c.isMaster => (c.workers > 0 /\ c.clustering)}

NoConfig ==
    [workers |-> 0, clustering |-> FALSE, isMaster |-> TRUE,
     port |-> DEFAULT_PORT, mirror |-> <<>>]

(* ------------------------- getMirrors(), lines 33-49 ------------------ *)

\* helpers.parseAndValidateAddressString(m, defPort): "host[:port]" to a target,
\* the default port filled in; it rejects for a string that does not parse.
ParseAddress(m, defPort) ==
    IF m.host = "?"
    THEN [ok |-> FALSE, host |-> "?", port |-> 0]
    ELSE [ok |-> TRUE, host |-> m.host,
          port |-> IF m.port = 0 THEN defPort ELSE m.port]

\* ip.isEqual(a, b) on addresses in normal form
IpIsEqual(a, b) == a = b

\* line 41 as a plausible slip: the host alone decides
IsSelfHostOnly(result, myIp, myPort) ==
    IpIsEqual(myIp, result.host) \/ IpIsEqual(Loopback, result.host)

\* line 41: the condition under which "Cannot mirror to self!" is thrown
IsSelf(result, myIp, myPort) ==
    /\ IpIsEqual(myIp, result.host) \/ IpIsEqual(Loopback, result.host)
    /\ myPort = result.port

\* lines 40-45: how the promise of one candidate settles
Outcome(m, myPort) ==
    LET result == ParseAddress(m, DEFAULT_PORT)
    IN  IF ~result.ok THEN "parse_err"
        ELSE IF IsSelf(result, MyIp, myPort) THEN "self_err"
        ELSE "ok"

Target(m) ==
    LET result == ParseAddress(m, DEFAULT_PORT)
    IN  [host |-> result.host, port |-> result.port]

NoTarget == [host |-> "", port |-> 0]

Unfilled(n) == [j \in 1 .. n |-> NoTarget]

\* Promise.all as a plausible slip: values kept in the order they arrive
PlaceByArrival(val, i, t) ==
    LET free == {j \in DOMAIN val : val[j] = NoTarget}
        first == CHOOSE j \in free : \A k \in free : j <= k
    IN  [val EXCEPT ![first] = t]

\* line 48, Promise.all: the value of promise i is stored at index i
PlaceResult(val, i, t) == [val EXCEPT ![i] = t]

\* line 48 as a plausible slip: failed candidates are dropped, the rest returned
AllAfterLenient(a, ms, i, m, out) ==
    IF a.st # "pending" THEN a
    ELSE LET v == IF out = "ok" THEN PlaceResult(a.val, i, Target(m)) ELSE a.val
         IN  IF \A j \in DOMAIN ms : ms[j] # "pending"
             THEN [st |-> "resolved", val |-> SelectSeq(v, LAMBDA t : t # NoTarget),
                   err |-> "none"]
             ELSE [a EXCEPT !.val = v]

\* line 48, Promise.all after promise i (of string m) settled as out, ms being the
\* promises' states then: the first rejection rejects the whole, the last
\* fulfilment resolves it
AllAfter(a, ms, i, m, out) ==
    IF a.st # "pending" THEN a
    ELSE IF out # "ok" THEN [st |-> "rejected", val |-> <<>>, err |-> out]
    ELSE LET v == PlaceResult(a.val, i, Target(m))
         IN  IF \A j \in DOMAIN ms : ms[j] = "ok"
             THEN [st |-> "resolved", val |-> v, err |-> "none"]
             ELSE [a EXCEPT !.val = v]

\* lines 39-48 up to the awaits: every candidate's validation is started
GetMirrorsCall ==
    /\ mirrors' = [j \in DOMAIN cfg.mirror |-> "pending"]
    /\ all' = IF cfg.mirror = <<>>
              THEN [st |-> "resolved", val |-> <<>>, err |-> "none"]
              ELSE [st |-> "pending", val |-> Unfilled(Len(cfg.mirror)), err |-> "none"]

\* lines 40-45 after the await: the validation of candidate i completes
Validate(i) ==
    /\ proc = "running"
    /\ i \in DOMAIN mirrors
    /\ mirrors[i] = "pending"
    /\ LET out == Outcome(cfg.mirror[i], cfg.port)
       IN  /\ mirrors' = [mirrors EXCEPT ![i] = out]
           /\ all' = AllAfter(all, mirrors', i, cfg.mirror[i], out)
    /\ UNCHANGED <<cleanVars, proc, signals, gateVars, sigVars,
                   pc, cfg, workers, logger, server, forked>>

(* ---------------------------- start(), lines 149-209 ------------------ *)

Sigs == {"SIGINT", "SIGTERM"}

NoServer ==
    [constructed |-> FALSE, mirror |-> <<>>, startCalls |-> 0, stopCalls |-> 0,
     start |-> "none"]

\* lines 162-166 as a plausible slip: the clustering flag is not consulted
FinalWorkersUnchecked(n, clustering) == n

\* lines 162-166: the worker count after the clustering check
FinalWorkers(n, clustering) == IF n > 0 /\ ~clustering THEN 0 ELSE n

\* lines 195-200: the cluster.fork() calls of the loop
ForkCount(isMaster, w) == IF isMaster /\ w > 0 THEN w ELSE 0

\* line 203: cluster.isWorker || workers === 0
StartsServer(isMaster, w) == ~isMaster \/ w = 0

\* line 159: start() calls initCache() with no options
StartCall ==
    /\ proc = "running"
    /\ pc = "idle"
    /\ InitCacheEnter("none")
    /\ pc' = "await_cache"
    /\ UNCHANGED <<cleanVars, proc, signals, moduleOk, sigVars,
                   cfg, workers, logger, mirrors, all, server, forked>>

\* lines 159-172: the cache is there; topology, logger, getMirrors() called
StartCacheDone ==
    /\ proc = "running"
    /\ pc = "await_cache"
    /\ calls[1].pc = "returned"
    /\ workers' = FinalWorkers(cfg.workers, cfg.clustering)
    /\ logger' = IF workers' > 0 THEN "cluster" ELSE "default"
    /\ GetMirrorsCall
    /\ pc' = "await_mirrors"
    /\ UNCHANGED <<cleanVars, proc, signals, gateVars, sigVars, cfg, server, forked>>

\* line 159: initCache() rejected, start() rejects
StartCacheFail ==
    /\ proc = "running"
    /\ pc = "await_cache"
    /\ calls[1].pc = "rejected"
    /\ pc' = "rejected"
    /\ UNCHANGED <<cleanVars, proc, signals, gateVars, sigVars,
                   cfg, workers, logger, mirrors, all, server, forked>>

\* lines 172-208: the mirrors are there; server constructed, handlers
\* installed, workers forked, server started
StartMirrorsDone ==
    /\ proc = "running"
    /\ pc = "await_mirrors"
    /\ all.st = "resolved"
    /\ listeners' = Sigs
    /\ forked' = forked + ForkCount(cfg.isMaster, workers)
    /\ IF StartsServer(cfg.isMaster, workers)
       THEN /\ server' = [constructed |-> TRUE, mirror |-> all.val, startCalls |-> 1,
                          stopCalls |-> 0, start |-> "pending"]
            /\ pc' = "await_server"
       ELSE /\ server' = [constructed |-> TRUE, mirror |-> all.val, startCalls |-> 0,
                          stopCalls |-> 0, start |-> "none"]
            /\ pc' = "returned"
    /\ UNCHANGED <<cleanVars, proc, signals, gateVars, cfg, workers, logger, mirrors, all,
                   hpc, shutdownCalls, events>>

\* line 172: getMirrors() rejected, start() rejects
StartMirrorsFail ==
    /\ proc = "running"
    /\ pc = "await_mirrors"
    /\ all.st = "rejected"
    /\ pc' = "rejected"
    /\ UNCHANGED <<cleanVars, proc, signals, gateVars, sigVars,
                   cfg, workers, logger, mirrors, all, server, forked>>

\* lines 204-208: server.start() resolved
ServerStartResolve ==
    /\ proc = "running"
    /\ pc = "await_server"
    /\ server' = [server EXCEPT !.start = "done"]
    /\ pc' = "returned"
    /\ UNCHANGED <<cleanVars, proc, signals, gateVars, sigVars,
                   cfg, workers, logger, mirrors, all, forked>>

\* lines 190-193: the server reports an error to errHandler: process.exit(1)
ServerStartError ==
    /\ proc = "running"
    /\ pc = "await_server"
    /\ server' = [server EXCEPT !.start = "failed"]
    /\ proc' = "exit1"
    /\ UNCHANGED <<cleanVars, signals, gateVars, sigVars,
                   pc, cfg, workers, logger, mirrors, all, forked>>

(* --------------------- signal handlers, lines 180-187 ----------------- *)

\* what a rejected promise nobody handles does to the process: nothing, or
\* (newer Node.js) it ends the process with a failure status
UnhandledRejection == {"running", "exit1"}

\* lines 181-183: a signal with a listener; process.once removes the listener,
\* the handler logs and calls cache.shutdown()
SignalHandled(sig) ==
    /\ proc = "running"
    /\ signals < MaxSignals
    /\ sig \in listeners
    /\ signals' = signals + 1
    /\ listeners' = listeners \ {sig}
    /\ hpc' = [hpc EXCEPT ![sig] = "await_shutdown"]
    /\ shutdownCalls' = shutdownCalls + 1
    /\ events' = events \o <<<<"log", sig>>, <<"shutdown_call", sig>>>>
    /\ backends' = [backends EXCEPT ![calls[1].inst].state =
                       IF @ = "ready" THEN "shutting_down" ELSE @]
    /\ UNCHANGED <<cleanVars, proc, moduleOk, cache_instance, calls, startVars>>

\* a signal without a listener: the default action ends the process
SignalDefault(sig) ==
    /\ proc = "running"
    /\ signals < MaxSignals
    /\ sig \notin listeners
    /\ sig \notin cancelOn
    /\ signals' = signals + 1
    /\ proc' = "killed"
    /\ UNCHANGED <<cleanVars, gateVars, startVars, sigVars>>

\* lines 183-184: cache.shutdown() resolved, server.stop() is called
ShutdownResolve(sig) ==
    /\ proc = "running"
    /\ hpc[sig] = "await_shutdown"
    /\ hpc' = [hpc EXCEPT ![sig] = "await_stop"]
    /\ server' = [server EXCEPT !.stopCalls = @ + 1]
    /\ events' = events \o <<<<"shutdown_done", sig>>, <<"stop_call", sig>>>>
    /\ backends' = [backends EXCEPT ![calls[1].inst].state = "stopped"]
    /\ UNCHANGED <<cleanVars, proc, signals, moduleOk, cache_instance, calls, listeners,
                   shutdownCalls, pc, cfg, workers, logger, mirrors, all, forked>>

\* line 183: cache.shutdown() rejected, the handler ends there
ShutdownReject(sig) ==
    /\ proc = "running"
    /\ hpc[sig] = "await_shutdown"
    /\ hpc' = [hpc EXCEPT ![sig] = "failed"]
    /\ events' = Append(events, <<"shutdown_failed", sig>>)
    /\ \E p \in UnhandledRejection : proc' = p
    /\ UNCHANGED <<cleanVars, signals, gateVars, startVars, listeners, shutdownCalls>>

\* lines 184-185: server.stop() resolved, process.exit()
StopResolve(sig) ==
    /\ proc = "running"
    /\ hpc[sig] = "await_stop"
    /\ hpc' = [hpc EXCEPT ![sig] = "exited"]
    /\ events' = events \o <<<<"stop_done", sig>>, <<"exit", sig>>>>
    /\ proc' = "exit0"
    /\ UNCHANGED <<cleanVars, signals, gateVars, startVars, listeners, shutdownCalls>>

\* line 184: server.stop() rejected, the handler ends there
StopReject(sig) ==
    /\ proc = "running"
    /\ hpc[sig] = "await_stop"
    /\ hpc' = [hpc EXCEPT ![sig] = "failed"]
    /\ events' = Append(events, <<"stop_failed", sig>>)
    /\ \E p \in UnhandledRejection : proc' = p
    /\ UNCHANGED <<cleanVars, signals, gateVars, startVars, listeners, shutdownCalls>>

(* --------------------------- cleanup(), lines 217-281 ----------------- *)

\* the slice cap of line 266
SliceCap == 250

\* the values of `daemon` cleanup() is called with: 0 is the single pass
Daemons == {0, 1, 250, 251, 600}

Min(a, b) == IF a <= b THEN a ELSE b

\* line 266 as a plausible slip: the whole interval is slept at once
SliceLenWhole(daemon) == daemon

\* line 266: const interval = Math.min(250, daemon)
SliceLen(daemon) == Min(SliceCap, daemon)

\* line 271 as a plausible slip: the loop is left only by the break of line 275
LoopContinuesAlways(fin) == TRUE

\* line 271: while(!finished)
LoopContinues(fin) == ~fin

\* lines 222-225 as a plausible slip: the capability is not checked
CleanupRefusedNever(cap) == FALSE

\* line 222: if(!cache.constructor.properties.cleanup)
CleanupRefused(cap) == ~cap

\* line 256 as a plausible slip: the pass is always run as a delete pass
CleanupArgDelete(dryRun) == FALSE

\* line 256: the argument of cache.cleanup(dryRun)
CleanupArg(dryRun) == dryRun

\* lines 258-260: the notice logged after a pass, n being the notices so far
NoticeAfter(n, dryRun) == IF dryRun THEN n + 1 ELSE n

\* line 263 as a plausible slip: the single pass is never chosen
SinglePassNever(daemon) == FALSE

\* line 263: if(!daemon) return doCleanup()
SinglePass(daemon) == daemon = 0

\* line 273 as a plausible slip: the loop test is i <= daemon
ForContinuesInclusive(v, daemon) == v <= daemon

\* line 273: the loop test i < daemon
ForContinues(v, daemon) == v < daemon

\* lines 254-256: doCleanup() up to its await: spinner.start, cache.cleanup(dryRun)
PassStart ==
    /\ Len(passArgs) < MaxPasses
    /\ spins' = spins + 1
    /\ passArgs' = Append(passArgs, CleanupArg(cargs.dryRun))
    /\ cpc' = "in_pass"
    /\ timer' = 0

\* line 271: the head of the daemon loop: another pass, or doCleanupInterval() returns
LoopHead(fin) ==
    IF LoopContinues(fin)
    THEN PassStart
    ELSE /\ cpc' = "returned"
         /\ timer' = 0
         /\ UNCHANGED <<spins, passArgs>>

\* lines 273-274: the for loop tested with loop variable v: one more slice is
\* slept, or the loop is over and line 271 is next
ForTest(v, fin) ==
    /\ loop_i' = v
    /\ IF ForContinues(v, cargs.daemon)
       THEN /\ timer' = interval
            /\ cpc' = "sleeping"
            /\ UNCHANGED <<spins, passArgs>>
       ELSE LoopHead(fin)

\* MaxSize bounds the small byte counts a cleanup_delete_finish event reports
MaxSize == 3

\* line 241: the precision asked of toPrecision
SigDigits == 2

\* line 241: the factor that turns the ratio into a percentage
PercentScale == 100

\* the byte counts of a cleanup_delete_finish event: the small ones, and sizes
\* whose ratios have one, two and three significant digits
Sizes == (0..MaxSize) \cup {12, 250, 1000}

\* the events the backend can emit: 0 <= deleteSize <= cacheSize
Reports == {r \in [cacheSize : Sizes, deleteSize : Sizes] : r.deleteSize <= r.cacheSize}

RECURSIVE Pow10(_)
Pow10(k) == IF k = 0 THEN 1 ELSE 10 * Pow10(k - 1)

\* the number of decimal places the leading digit of d / c lies behind the
\* point (0 for d = c, 1 for 0.1 <= d / c < 1, ...), for 0 < d <= c
RECURSIVE LeadPlace(_, _, _)
LeadPlace(d, c, k) == IF d * Pow10(k) >= c THEN k ELSE LeadPlace(d, c, k + 1)

\* Number.prototype.toPrecision(SigDigits) of d / c, read back as a number by
\* the multiplication: the ratio rounded to SigDigits significant digits (a
\* tie takes the larger digit string), as the exact fraction num / den
ToPrecision(d, c) ==
    IF d = 0
    THEN [num |-> 0, den |-> 1]
    ELSE LET places == LeadPlace(d, c, 0) + SigDigits - 1
             den    == Pow10(places)
         IN  [num |-> (2 * d * den + c) \div (2 * c), den |-> den]

\* line 241: pct, as the exact fraction num / den
Pct(data) ==
    IF data.cacheSize > 0
    THEN LET q == ToPrecision(data.deleteSize, data.cacheSize)
         IN  [num |-> q.num * PercentScale, den |-> q.den]
    ELSE [num |-> 0, den |-> 1]

NoSummary == [cacheSize |-> 0, deleteSize |-> 0, pct |-> [num |-> 0, den |-> 0]]

\* lines 240-243: the cleanup_delete_finish listener logs the summary of a pass
DeleteFinish ==
    /\ proc = "running"
    /\ cpc = "in_pass"
    /\ handlers > 0
    /\ \E data \in Reports :
          summary' = [cacheSize |-> data.cacheSize, deleteSize |-> data.deleteSize,
                      pct |-> Pct(data)]
    /\ UNCHANGED <<proc, signals, gateVars, startVars, sigVars, cpc, cargs, capCleanup,
                   handlers, finished, cancelAt, cancelOn, loop_i, interval, timer, slices,
                   passArgs, completed, spins, notices>>

\* line 220: cleanup(dryRun, daemon) calls initCache() with no options
CleanupCall ==
    /\ proc = "running"
    /\ cpc = "idle"
    /\ \E d \in BOOLEAN, n \in Daemons : cargs' = [dryRun |-> d, daemon |-> n]
    /\ InitCacheEnter("none")
    /\ cpc' = "await_cache"
    /\ UNCHANGED <<proc, signals, moduleOk, startVars, sigVars, capCleanup, summary, handlers,
                   finished, cancelAt, cancelOn, loop_i, interval, timer, slices, passArgs,
                   completed, spins, notices>>

\* line 220: initCache() rejected, cleanup() rejects
CleanupCacheFail ==
    /\ proc = "running"
    /\ cpc = "await_cache"
    /\ calls[1].pc = "rejected"
    /\ cpc' = "rejected"
    /\ UNCHANGED <<proc, signals, gateVars, startVars, sigVars, cargs, capCleanup, summary,
                   handlers, finished, cancelAt, cancelOn, loop_i, interval, timer, slices,
                   passArgs, completed, spins, notices>>

\* lines 222-225: the backend cannot clean up: process.exit(1)
CleanupUnsupported ==
    /\ proc = "running"
    /\ cpc = "await_cache"
    /\ calls[1].pc = "returned"
    /\ CleanupRefused(capCleanup)
    /\ proc' = "exit1"
    /\ cpc' = "aborted"
    /\ UNCHANGED <<signals, gateVars, startVars, sigVars, cargs, capCleanup, summary,
                   handlers, finished, cancelAt, cancelOn, loop_i, interval, timer, slices,
                   passArgs, completed, spins, notices>>

\* lines 227-263: listeners attached, then the single pass of `!daemon`
CleanupSingle ==
    /\ proc = "running"
    /\ cpc = "await_cache"
    /\ calls[1].pc = "returned"
    /\ ~CleanupRefused(capCleanup)
    /\ SinglePass(cargs.daemon)
    /\ handlers' = handlers + 4
    /\ PassStart
    /\ UNCHANGED <<proc, signals, gateVars, startVars, sigVars, cargs, capCleanup, summary,
                   finished, cancelAt, cancelOn, loop_i, interval, slices, completed, notices>>

\* lines 227-272: listeners attached, then doCleanupInterval() up to its first pass
CleanupDaemon ==
    /\ proc = "running"
    /\ cpc = "await_cache"
    /\ calls[1].pc = "returned"
    /\ ~CleanupRefused(capCleanup)
    /\ ~SinglePass(cargs.daemon)
    /\ handlers' = handlers + 4
    /\ interval' = SliceLen(cargs.daemon)
    /\ finished' = FALSE
    /\ cancelOn' = Sigs
    /\ LoopHead(FALSE)
    /\ UNCHANGED <<proc, signals, gateVars, startVars, sigVars, cargs, capCleanup, summary,
                   cancelAt, loop_i, slices, completed, notices>>

\* lines 256-263 and 272-274: cache.cleanup() resolved; the notice of a dry
\* run; then cleanup() returns (single pass) or the first slice is slept
PassResolve ==
    /\ proc = "running"
    /\ cpc = "in_pass"
    /\ completed' = completed + 1
    /\ notices' = NoticeAfter(notices, cargs.dryRun)
    /\ IF SinglePass(cargs.daemon)
       THEN /\ cpc' = "returned"
            /\ UNCHANGED <<loop_i, timer, slices, spins, passArgs>>
       ELSE /\ ForTest(0, finished)
            /\ slices' = IF cpc' = "sleeping" THEN 1 ELSE 0
    /\ UNCHANGED <<proc, signals, gateVars, startVars, sigVars, cargs, capCleanup, summary,
                   handlers, finished, cancelAt, cancelOn, interval>>

\* line 256: cache.cleanup() rejected: doCleanup() throws, cleanup() rejects
PassReject ==
    /\ proc = "running"
    /\ cpc = "in_pass"
    /\ cpc' = "rejected"
    /\ UNCHANGED <<proc, signals, gateVars, startVars, sigVars, cargs, capCleanup, summary,
                   handlers, finished, cancelAt, cancelOn, loop_i, interval, timer, slices,
                   passArgs, completed, spins, notices>>

\* lines 274-276 and 271-273: the timer of a slice fires: break if finished,
\* else i += interval and the for loop is tested again
TimerFire ==
    /\ proc = "running"
    /\ cpc = "sleeping"
    /\ IF finished
       THEN /\ LoopHead(finished)
            /\ UNCHANGED loop_i
       ELSE ForTest(loop_i + interval, finished)
    /\ slices' = IF cpc' = "sleeping" THEN slices + 1 ELSE slices
    /\ UNCHANGED <<proc, signals, gateVars, startVars, sigVars, cargs, capCleanup, summary,
                   handlers, finished, cancelAt, cancelOn, interval, completed, notices>>

\* line 269: a signal with the daemon loop's listener: finished = true
SignalCancel(sig) ==
    /\ proc = "running"
    /\ signals < MaxSignals
    /\ sig \in cancelOn
    /\ signals' = signals + 1
    /\ finished' = TRUE
    /\ cancelAt' = IF finished THEN cancelAt ELSE cpc
    /\ UNCHANGED <<proc, gateVars, startVars, sigVars, cpc, cargs, capCleanup, summary,
                   handlers, cancelOn, loop_i, interval, timer, slices, passArgs,
                   completed, spins, notices>>

(* --------------------------- specifications --------------------------- *)

GateInit ==
    /\ moduleOk \in BOOLEAN
    /\ cache_instance = 0
    /\ backends = <<>>
    /\ calls = <<>>

StartInit ==
    /\ pc = "idle"
    /\ workers = 0
    /\ logger = "unset"
    /\ mirrors = <<>>
    /\ all = [st |-> "none", val |-> <<>>, err |-> "none"]
    /\ server = NoServer
    /\ forked = 0

SigInit ==
    /\ proc = "running"
    /\ signals = 0
    /\ listeners = {}
    /\ hpc = [s \in Sigs |-> "idle"]
    /\ shutdownCalls = 0
    /\ events = <<>>

CleanInit ==
    /\ cpc = "idle"
    /\ cargs = [dryRun |-> TRUE, daemon |-> 0]
    /\ handlers = 0
    /\ finished = FALSE
    /\ cancelAt = "none"
    /\ cancelOn = {}
    /\ loop_i = 0
    /\ interval = 0
    /\ timer = 0
    /\ slices = 0
    /\ passArgs = <<>>
    /\ completed = 0
    /\ spins = 0
    /\ notices = 0
    /\ summary = NoSummary

\* the process before any call of the class
InitGate == GateInit /\ StartInit /\ SigInit /\ CleanInit /\ cfg = NoConfig /\ capCleanup = TRUE

NextGate == InitCacheCall \/ InitResolve \/ InitReject

SpecGate == InitGate /\ [][NextGate]_vars

\* the process that is about to call start()
Init == GateInit /\ StartInit /\ SigInit /\ CleanInit /\ cfg \in Configs /\ capCleanup = TRUE

Next ==
    \/ StartCall
    \/ InitResolve
    \/ InitReject
    \/ StartCacheDone
    \/ StartCacheFail
    \/ \E i \in 1 .. MaxMirrors : Validate(i)
    \/ StartMirrorsDone
    \/ StartMirrorsFail
    \/ ServerStartResolve
    \/ ServerStartError
    \/ \E sig \in Sigs : SignalHandled(sig)
    \/ \E sig \in Sigs : SignalDefault(sig)
    \/ \E sig \in Sigs : ShutdownResolve(sig)
    \/ \E sig \in Sigs : ShutdownReject(sig)
    \/ \E sig \in Sigs : StopResolve(sig)
    \/ \E sig \in Sigs : StopReject(sig)

Spec == Init /\ [][Next]_vars

\* the process that is about to call cleanup()
InitCleanup ==
    GateInit /\ StartInit /\ SigInit /\ CleanInit /\ cfg = NoConfig /\ capCleanup \in BOOLEAN

NextCleanup ==
    \/ CleanupCall
    \/ InitResolve
    \/ InitReject
    \/ CleanupCacheFail
    \/ CleanupUnsupported
    \/ CleanupSingle
    \/ CleanupDaemon
    \/ DeleteFinish
    \/ PassResolve
    \/ PassReject
    \/ TimerFire
    \/ \E sig \in Sigs : SignalCancel(sig)
    \/ \E sig \in Sigs : SignalDefault(sig)

SpecCleanup == InitCleanup /\ [][NextCleanup]_vars

(* ------------------------------- claims ------------------------------- *)

\* the steps of kind k among the first n shutdown steps
RECURSIVE CountKind(_, _)
CountKind(k, n) ==
    IF n = 0 THEN 0
    ELSE CountKind(k, n - 1) + (IF events[n][1] = k THEN 1 ELSE 0)

\* cache.shutdown() calls still pending after the first n shutdown steps
PendingShutdowns(n) ==
    CountKind("shutdown_call", n) - CountKind("shutdown_done", n)
        - CountKind("shutdown_failed", n)

\* the steps one handler takes, in the order the claim gives
SequenceOrder ==
    <<"log", "shutdown_call", "shutdown_done", "stop_call", "stop_done", "exit">>

StepsOf(sig) == SelectSeq(events, LAMBDA e : e[2] = sig)

IsPrefix(p, q) == Len(p) <= Len(q) /\ \A n \in DOMAIN p : p[n] = q[n]

\* candidate i of the configured mirror list parses / is this node itself
Parses(i) == cfg.mirror[i].host # "?"

SelfCandidate(i) ==
    /\ Parses(i)
    /\ cfg.mirror[i].host \in {MyIp, Loopback}
    /\ (IF cfg.mirror[i].port = 0 THEN DEFAULT_PORT ELSE cfg.mirror[i].port) = cfg.port

\* the targets of the whole configured list, in input order
InOrder == [j \in DOMAIN cfg.mirror |-> Target(cfg.mirror[j])]

Settled == all.st \in {"resolved", "rejected"}

\* C1: in start(), however many termination signals arrive and in whatever
\* combination, backend shutdown() is invoked at most once and server stop()
\* is invoked at most once.
C1_ShutdownOnce == shutdownCalls <= 1 /\ server.stopCalls <= 1

\* C2: every shutdown sequence logs the notice, then invokes backend
\* shutdown() and lets it complete, then invokes server stop() and lets it
\* complete, then exits; stop() is never invoked while a backend shutdown()
\* is still pending, and the exit never precedes the completion of stop().
C2_ShutdownOrder ==
    /\ \A sig \in Sigs :
          \/ IsPrefix([n \in DOMAIN StepsOf(sig) |-> StepsOf(sig)[n][1]], SequenceOrder)
          \/ hpc[sig] = "failed"
    /\ \A n \in DOMAIN events :
          events[n][1] = "stop_call" => PendingShutdowns(n) = 0
    /\ \A n \in DOMAIN events :
          events[n][1] = "exit" => CountKind("stop_done", n) >= 1

\* C3: over any sequence of initCache() calls, overlapping ones included, at
\* most one backend is ever constructed, init() runs at most once, and every
\* call that returns yields that one instance.
C3_Singleton ==
    /\ Len(backends) <= 1
    /\ \A b \in DOMAIN backends : backends[b].inits <= 1
    /\ \A k \in DOMAIN calls :
          calls[k].pc = "returned" => calls[k].inst = 1 /\ cache_instance = 1

\* C3's case: two calls with different options, the second made while the
\* first still awaits init(), both returned the same instance.
C3_Witness ==
    \E j, k \in DOMAIN calls :
        /\ j < k
        /\ calls[j].opts # calls[k].opts
        /\ calls[j].pc = "returned" /\ calls[k].pc = "returned"
        /\ calls[k].seen = "initializing"
        /\ calls[j].inst = calls[k].inst

\* C4: whenever initCache() returns a backend, that backend's init() has
\* completed successfully: the backend is Ready.
C4_ReturnedIsReady ==
    \A k \in DOMAIN calls : calls[k].pc = "returned" => calls[k].seen = "ready"

\* C5: if init() fails, the failure reaches the caller and the singleton is
\* not set: no later initCache() call returns the failed instance.
C5_FailureNotMemoised ==
    \A b \in DOMAIN backends :
        backends[b].state = "failed" =>
            /\ \A k \in DOMAIN calls :
                  (calls[k].inst = b /\ calls[k].seen = "none") => calls[k].pc = "rejected"
            /\ cache_instance # b
            /\ \A k \in DOMAIN calls : calls[k].seen # "failed"

\* C6: for a requested worker count N >= 0 and clustering flag c, the final
\* count is N when N > 0 and c, else 0.  With final count 0 the process forks
\* nothing and starts its server; with final count N > 0 the master forks
\* exactly N workers and starts no server, a worker forks nothing and starts
\* exactly one server.
C6_Topology ==
    cfg.workers >= 0 =>
        LET final == IF cfg.workers > 0 /\ cfg.clustering THEN cfg.workers ELSE 0
        IN  /\ logger # "unset" => workers = final
            /\ ~server.constructed => forked = 0 /\ server.startCalls = 0
            /\ server.constructed =>
                  /\ final = 0 => forked = 0 /\ server.startCalls = 1
                  /\ (final > 0 /\ cfg.isMaster) =>
                          forked = final /\ server.startCalls = 0
                  /\ (final > 0 /\ ~cfg.isMaster) =>
                          forked = 0 /\ server.startCalls = 1

\* C6's case: a master with N = 2 on a clustering backend has forked two
\* workers and returned from start() without starting a server.
C6_Witness ==
    /\ cfg.workers = 2 /\ cfg.clustering /\ cfg.isMaster
    /\ pc = "returned"
    /\ forked = 2
    /\ server.startCalls = 0

\* C7 as stated: getMirrors() rejects with the self-mirror error exactly when
\* some candidate is this node (own address or 127.0.0.1, and own port); if
\* every candidate parses and differs, it resolves to the targets in input
\* order.
C7_SelfMirrorExactly ==
    Settled =>
        /\ (all.st = "rejected" /\ all.err = "self_err")
              <=> (\E i \in DOMAIN cfg.mirror : SelfCandidate(i))
        /\ (\A i \in DOMAIN cfg.mirror : Parses(i) /\ ~SelfCandidate(i))
              => (all.st = "resolved" /\ all.val = InOrder)

\* C7 as amended: getMirrors() rejects exactly when some candidate fails to
\* parse or is this node; the error is the self-mirror error only if some
\* candidate is this node, and always when some candidate is this node and
\* every candidate parses; if every candidate parses and differs in host or
\* port, it resolves to one target per string in input order.
C7_SelfMirror ==
    Settled =>
        /\ all.st = "rejected"
              <=> (\E i \in DOMAIN cfg.mirror : ~Parses(i) \/ SelfCandidate(i))
        /\ (all.st = "rejected" /\ all.err = "self_err")
              => (\E i \in DOMAIN cfg.mirror : SelfCandidate(i))
        /\ ((\A i \in DOMAIN cfg.mirror : Parses(i))
                /\ (\E i \in DOMAIN cfg.mirror : SelfCandidate(i)))
              => (all.st = "rejected" /\ all.err = "self_err")
        /\ (\A i \in DOMAIN cfg.mirror : Parses(i) /\ ~SelfCandidate(i))
              => (all.st = "resolved" /\ all.val = InOrder)

\* C7's case: a list resolved although one candidate has this node's address
\* (with another port) and another has this node's port (on another host).
C7_Witness ==
    /\ all.st = "resolved"
    /\ Len(cfg.mirror) = 2
    /\ cfg.mirror[1].host = MyIp /\ all.val[1].port # cfg.port
    /\ cfg.mirror[2].host = PeerIp /\ all.val[2].port = cfg.port

\* C8: if any candidate fails to parse or is a self-mirror, getMirrors() fails
\* as a whole, never yielding a partial list, and start() fails without
\* constructing or starting a server, without forking, and without a partial
\* mirror list reaching the server.
C8_AllOrNothing ==
    /\ (\E i \in DOMAIN cfg.mirror : ~Parses(i) \/ SelfCandidate(i)) =>
          /\ all.st # "resolved"
          /\ pc \in {"idle", "await_cache", "await_mirrors", "rejected"}
          /\ ~server.constructed
          /\ server.startCalls = 0
          /\ forked = 0
    /\ all.st = "resolved" => all.val = InOrder
    /\ server.constructed => server.mirror = InOrder

\* C8's case: start() has rejected on a list of which one candidate was
\* validated successfully and another failed.
C8_Witness ==
    /\ pc = "rejected"
    /\ all.st = "rejected"
    /\ \E i \in DOMAIN mirrors : mirrors[i] = "ok"
    /\ ~server.constructed

\* C9: in daemon mode, once the cancellation flag is set no cleanup pass is
\* started: every cache.cleanup() call is made with the flag still false.
C9_NoPassAfterCancel ==
    [][(cargs.daemon > 0 /\ Len(passArgs') > Len(passArgs))
          => (~finished /\ ~finished')]_vars

\* C9's case: the flag was set during a sleep after the first pass, and the
\* loop has returned with no further pass started.
C9_Witness ==
    /\ cargs.daemon > 0
    /\ finished
    /\ cancelAt = "sleeping"
    /\ cpc = "returned"
    /\ Len(passArgs) = 1

\* C10: in daemon mode every slice lasts min(250, intervalMs) ms, never more
\* than 250 ms, and the flag is checked after every slice: with the flag set
\* during a sleep, the slice in progress is the last one and the loop returns
\* when it ends.
C10_BoundedSlices ==
    [][/\ cpc' = "sleeping" =>
            /\ timer' = (IF cargs'.daemon < 250 THEN cargs'.daemon ELSE 250)
            /\ timer' <= 250
       /\ (cpc = "sleeping" /\ finished) =>
            \/ cpc' = "returned"
            \/ cpc' = "sleeping" /\ slices' = slices /\ timer' = timer
                  /\ loop_i' = loop_i]_vars

\* C10's case: with intervalMs = 600 the flag was set during a sleep and the
\* loop returned after the first of the three slices.
C10_Witness ==
    /\ cargs.daemon = 600
    /\ cancelAt = "sleeping"
    /\ cpc = "returned"
    /\ slices = 1
    /\ loop_i = 0

\* C11: in daemon mode a cleanup pass that fails does not stop the loop: the
\* loop leaves only after the cancellation flag has been set.
C11_FailedPassKeepsLoop ==
    (cargs.daemon > 0 /\ Len(passArgs) >= 1 /\ cpc \in {"returned", "rejected"})
        => finished

\* C12: while the server.start() begun by start() is pending, neither backend
\* shutdown() nor server stop() is invoked.
C12_NoShutdownDuringStart ==
    server.start = "pending" => (shutdownCalls = 0 /\ server.stopCalls = 0)

\* C13: on a backend whose cleanup capability is false, cleanup() ends the
\* process with a non-zero status before any cleanup work: cache.cleanup() is
\* never invoked, no progress listener is attached, no pass is started.
C13_UnsupportedAborts ==
    ~capCleanup =>
        /\ passArgs = <<>> /\ spins = 0 /\ completed = 0
        /\ handlers = 0
        /\ cancelOn = {}
        /\ cpc \in {"idle", "await_cache", "rejected", "aborted"}
        /\ cpc = "aborted" => proc = "exit1"
        /\ (cpc = "rejected") => calls[1].pc = "rejected"

\* C13's case: cleanup() got the backend, found the capability missing and
\* ended the process with status 1.
C13_Witness ==
    /\ ~capCleanup
    /\ cpc = "aborted"
    /\ proc = "exit1"
    /\ Len(calls) = 1
    /\ calls[1].pc = "returned"

\* C14: with dryRun = true every cache.cleanup() call, in single-pass and in
\* daemon mode, carries dryRun = true, and every completed pass is followed
\* by exactly one "Nothing deleted" notice; with dryRun = false the notice is
\* never logged.
C14_DryRun ==
    cpc # "idle" =>
        /\ cargs.dryRun =>
              /\ \A k \in DOMAIN passArgs : passArgs[k] = TRUE
              /\ notices = completed
        /\ ~cargs.dryRun => notices = 0

\* C14's case: a dry run in daemon mode has completed two passes and logged
\* two notices.
C14_Witness ==
    /\ cargs.dryRun
    /\ cargs.daemon > 0
    /\ completed = 2
    /\ notices = 2
    /\ Len(passArgs) >= 2

\* C16: with intervalMs = 0 cleanup() runs exactly one pass (one search-start
\* notification, one cache.cleanup() call) and completes: it never sleeps,
\* never installs the cancellation listeners, never starts a second pass.
C16_SinglePass ==
    (cpc # "idle" /\ cargs.daemon = 0) =>
        /\ Len(passArgs) <= 1
        /\ spins = Len(passArgs)
        /\ cancelOn = {}
        /\ cpc # "sleeping" /\ timer = 0 /\ slices = 0
        /\ cpc = "in_pass" => Len(passArgs) = 1
        /\ cpc = "returned" => (Len(passArgs) = 1 /\ completed = 1)

\* C16's case: cleanup(dryRun, 0) has returned after its one pass.
C16_Witness ==
    /\ cargs.daemon = 0
    /\ cpc = "returned"
    /\ completed = 1
    /\ spins = 1

\* C20: in daemon mode the sleep between the end of one pass and the start of
\* the next is ceil(intervalMs / s) slices of s = min(250, intervalMs) ms: at
\* least one slice, at least intervalMs, less than intervalMs + 250 ms, and
\* more than intervalMs when intervalMs > 250 is no multiple of 250.
C20_SleepBetweenPasses ==
    (cargs.daemon > 0 /\ cpc = "in_pass" /\ Len(passArgs) >= 2) =>
        LET s == IF cargs.daemon < 250 THEN cargs.daemon ELSE 250
            n == (cargs.daemon + s - 1) \div s
        IN  /\ slices = n
            /\ slices >= 1
            /\ slices * s >= cargs.daemon
            /\ slices * s < cargs.daemon + 250
            /\ (cargs.daemon > 250 /\ cargs.daemon % 250 # 0)
                  => slices * s > cargs.daemon

\* C20's case: with intervalMs = 251 the second pass has started after two
\* slices of 250 ms.
C20_Witness ==
    /\ cargs.daemon = 251
    /\ cpc = "in_pass"
    /\ Len(passArgs) = 2
    /\ slices = 2
    /\ ~finished

\* round(d / c * 100) with halves rounded up, for c > 0
RoundedPercent(d, c) == (2 * PercentScale * d + c) \div (2 * c)

\* C15: the percentage of every logged summary equals
\* round(deleteSize / cacheSize * 100) when cacheSize > 0 and 0 when
\* cacheSize = 0.
C15_PercentRounded ==
    summary # NoSummary =>
        IF summary.cacheSize > 0
        THEN summary.pct.num
                 = RoundedPercent(summary.deleteSize, summary.cacheSize) * summary.pct.den
        ELSE summary.pct.num = 0

\* signal handlers of lines 180-187 that have started
Started == {sig \in Sigs : hpc[sig] # "idle"}

\* C17 (safety part, with the claim's proviso that shutdown() and stop() each
\* complete): once a termination signal has started the shutdown sequence and
\* no step of it has failed, the process is shutting down or has terminated
\* with success status; it is never ended any other way.
C17_ShutdownEndsInSuccess ==
    (Started # {} /\ \A sig \in Sigs : hpc[sig] # "failed")
        => proc \in {"running", "exit0"}

\* C18: for every configured worker count, negative ones included, a start()
\* that completed has started this process's server or forked a worker.
C18_ServiceReachable ==
    pc = "returned" => (server.start = "done" \/ forked >= 1)

\* C19: server.stop() is invoked only on a server whose start() has completed
\* in this process.
C19_StopOnlyStarted ==
    server.stopCalls > 0 => server.start = "done"

=============================================================================
